---- MODULE Spec2Model ----
(***************************************************************************)
(* State-machine model of the WG-server backend (src/app.js): the          *)
(* scrape-and-persist pipeline fetchDataAndSaveToDB with its cron and      *)
(* GET /update triggers, GET /prices, the display endpoints and            *)
(* POST /signup, over the tables of the v0_0_1 migration.                  *)
(*                                                                         *)
(* Every `await` of a handler is a suspension point: a handler is split    *)
(* into steps at the instants at which its store and network operations   *)
(* are executed, and the code between two of them belongs to the later     *)
(* one when it touches nothing shared.  Element text that is parsed (the   *)
(* figure) is a sequence of one-character strings; text that is only       *)
(* copied is a string.                                                     *)
(***************************************************************************)
EXTENDS Integers, Sequences, FiniteSets, TLC

VARIABLES
    alive,          \* the node process is running
    clock,          \* wall clock read by `new Date()`
    price,          \* table "price": a set of rows
    price_id_seq,   \* next value of the SERIAL column price.id
    pc,             \* per run of fetchDataAndSaveToDB: "idle" | "fetch" | "insert"
    html,           \* per run: local `html` (the fetched document)
    prices,         \* per run: local `prices` (the extracted batch)
    log,            \* per run: what the run wrote to the console: "none",
                    \* "inserted", "error: fetch" or "error: insert"
    updateRes,      \* response sent to the caller of GET /update
    pricesRes,      \* response sent to the caller of GET /prices
    user,           \* table "user"
    user_id_seq,    \* next value of the SERIAL column user.id
    display,        \* table "display"
    display_id_seq, \* next value of the SERIAL column display.id
    sreq,           \* per POST /signup request: position, body and response
    dreq            \* per display request: position, caller, arguments, response

vars == <<alive, clock, price, price_id_seq, pc, html, prices, log, updateRes,
          pricesRes, user, user_id_seq, display, display_id_seq, sreq, dreq>>

pipelineVars == <<alive, clock, price, price_id_seq, pc, html, prices, log,
                  updateRes, pricesRes>>
signupVars == <<user, user_id_seq, sreq>>
displayVars == <<display, display_id_seq, dreq>>

-----------------------------------------------------------------------------
(* Bounds of the model *)

MaxRows == 10       \* rows the price table may hold
MaxClock == 1       \* ticks of the wall clock
MaxSignups == 2     \* POST /signup requests in flight at once
MaxDisplayReqs == 2 \* display requests in flight at once

-----------------------------------------------------------------------------
(* Numbers as parseFloat produces them: NaN, or the decimal num / den with  *)
(* den a power of ten and no trailing zero in the fraction.                *)

NaN == [nan |-> TRUE, num |-> 0, den |-> 1]

Num(n, d) == [nan |-> FALSE, num |-> n, den |-> d]

RECURSIVE Normalize(_, _)
Normalize(n, d) ==
    IF d > 1 /\ n % 10 = 0 THEN Normalize(n \div 10, d \div 10) ELSE Num(n, d)

RECURSIVE Pow10(_)
Pow10(k) == IF k = 0 THEN 1 ELSE 10 * Pow10(k - 1)

Digits == <<"0", "1", "2", "3", "4", "5", "6", "7", "8", "9">>

IsDigit(c) == \E i \in 1..Len(Digits) : Digits[i] = c

DigitVal(c) == (CHOOSE i \in 1..Len(Digits) : Digits[i] = c) - 1

IsWhiteSpace(c) == c \in {" ", "\n", "\t"}

RECURSIVE SkipWhiteSpace(_)
SkipWhiteSpace(s) ==
    IF s # <<>> /\ IsWhiteSpace(Head(s)) THEN SkipWhiteSpace(Tail(s)) ELSE s

\* the longest prefix of s made of decimal digits
RECURSIVE TakeDigits(_)
TakeDigits(s) ==
    IF s # <<>> /\ IsDigit(Head(s)) THEN <<Head(s)>> \o TakeDigits(Tail(s)) ELSE <<>>

RECURSIVE DigitsToInt(_, _)
DigitsToInt(s, acc) ==
    IF s = <<>> THEN acc ELSE DigitsToInt(Tail(s), 10 * acc + DigitVal(Head(s)))

\* JavaScript's parseFloat on texts without exponent and without "Infinity":
\* leading white space is skipped, then the longest prefix of the form
\* [+-] digits [. digits] or [+-] . digits is the value, anything after it is
\* ignored, and no such prefix gives NaN.
parseFloat(s) ==
    LET t == SkipWhiteSpace(s)
        signed == t # <<>> /\ Head(t) \in {"+", "-"}
        sign == IF signed /\ Head(t) = "-" THEN -1 ELSE 1
        u == IF signed THEN Tail(t) ELSE t
        ip == TakeDigits(u)
        rest == SubSeq(u, Len(ip) + 1, Len(u))
        fp == IF rest # <<>> /\ Head(rest) = "." THEN TakeDigits(Tail(rest)) ELSE <<>>
    IN  IF ip = <<>> /\ fp = <<>>
        THEN NaN
        ELSE Normalize(sign * DigitsToInt(ip \o fp, 0), Pow10(Len(fp)))

-----------------------------------------------------------------------------
(* The scraped document: the ".key-facts-full__fact-wrapper" elements in    *)
(* document order, each with the text of its figure and of its description, *)
(* and the <p> elements found below ".key-facts-full__quote".              *)

Wrapper(f, d) == [figure |-> f, description |-> d]

Page(w, q) == [wrappers |-> w, quote |-> q]

NoPage == Page(<<>>, <<>>)

PageFixture ==
    Page(<<Wrapper(<<"1", "2", ".", "5">>, "first"),
           Wrapper(<<"a", "b", "c">>, "second"),
           Wrapper(<<"7">>, "third")>>,
         <<"Test quote">>)

PageTwo ==
    Page(<<Wrapper(<<" ", "-", ".", "5", "0", "x">>, ""),
           Wrapper(<<>>, "no figure")>>,
         <<"Two ", "parts">>)

PageNoFacts == Page(<<>>, <<"Test quote">>)

Pages == {PageFixture, PageTwo, PageNoFacts}

\* cheerio's .text() of a selection: the texts of its elements, concatenated
RECURSIVE Text(_)
Text(elems) == IF elems = <<>> THEN "" ELSE Head(elems) \o Text(Tail(elems))

-----------------------------------------------------------------------------
(* fetchDataAndSaveToDB: extraction (src/app.js 423-434)                    *)

\* the body of the .each() callback, applied to the wrappers left to visit
RECURSIVE ExtractEach(_, _, _, _)
ExtractEach(wrappers, page, orderID, acc) ==
    IF wrappers = <<>>
    THEN acc
    ELSE LET figure == parseFloat(Head(wrappers).figure)
             description == Head(wrappers).description
             quote == Text(page.quote)
         IN  ExtractEach(Tail(wrappers), page, orderID + 1,
                         Append(acc, [orderID |-> orderID, figure |-> figure,
                                      description |-> description, quote |-> quote]))

\* variant: the counter starts at 0
Extract_fromZero(page) == ExtractEach(page.wrappers, page, 0, <<>>)

\* variant: records whose figure did not parse are left out of the batch
Extract_dropNaN(page) ==
    SelectSeq(ExtractEach(page.wrappers, page, 1, <<>>), LAMBDA p : ~p.figure.nan)

\* `prices` after the loop: `let orderID = 1` and an empty array before it
Extract(page) == ExtractEach(page.wrappers, page, 1, <<>>)

-----------------------------------------------------------------------------
(* The price table (migration.sql 2-11): PRIMARY KEY (id) is its only       *)
(* uniqueness constraint; id is SERIAL.                                     *)

PriceRow(id, p, at) ==
    [id |-> id, orderID |-> p.orderID, figure |-> p.figure,
     description |-> p.description, quote |-> p.quote, created_at |-> at]

\* a row collides with the table on a uniqueness constraint
PriceConflict(row, table) == \E x \in table : x.id = row.id

\* variant: the statement replaces the content of the table by the batch
CreateManyPrices_replace(table, seq, data, at) ==
    [table |-> {PriceRow(seq + i - 1, data[i], at) : i \in 1..Len(data)},
     seq |-> seq + Len(data)]

\* prisma.price.createMany({data, skipDuplicates: true}): INSERT ... ON CONFLICT
\* DO NOTHING of the rows in order, each drawing its id from the sequence.
\* The result is the table and the sequence after the statement.
RECURSIVE CreateManyPrices(_, _, _, _)
CreateManyPrices(table, seq, data, at) ==
    IF data = <<>>
    THEN [table |-> table, seq |-> seq]
    ELSE LET row == PriceRow(seq, Head(data), at)
         IN  IF PriceConflict(row, table)
             THEN CreateManyPrices(table, seq + 1, Tail(data), at)
             ELSE CreateManyPrices(table \cup {row}, seq + 1, Tail(data), at)

PricesTake == 5

\* variant: orderBy {id: "asc"}
RECURSIVE FindManyPrices_asc(_, _)
FindManyPrices_asc(table, take) ==
    IF take = 0 \/ table = {}
    THEN <<>>
    ELSE LET low == CHOOSE x \in table : \A y \in table : x.id <= y.id
         IN  <<low>> \o FindManyPrices_asc(table \ {low}, take - 1)

\* prisma.price.findMany({take, orderBy: {id: "desc"}})
RECURSIVE FindManyPrices(_, _)
FindManyPrices(table, take) ==
    IF take = 0 \/ table = {}
    THEN <<>>
    ELSE LET top == CHOOSE x \in table : \A y \in table : y.id <= x.id
         IN  <<top>> \o FindManyPrices(table \ {top}, take - 1)

-----------------------------------------------------------------------------
(* Runs of fetchDataAndSaveToDB.  "cron" is the run started by the          *)
(* schedule of startServer, "update" the run started by GET /update.        *)

Runs == {"cron", "update"}

NoResponse == [status |-> 0, body |-> <<>>]

Response(status, body) == [status |-> status, body |-> body]

\* variant: no try/catch, a failure rejects the promise
Settle_rethrow(failed) == IF failed THEN "rejected" ELSE "resolved"

\* how the promise of fetchDataAndSaveToDB settles: the try/catch around the
\* whole body swallows every failure, so the promise always resolves
Settle(failed) == "resolved"

\* GET /update: .then() answers 200, .catch() answers 500
UpdateRespond(outcome) ==
    IF outcome = "resolved"
    THEN Response(200, "Data updated")
    ELSE Response(500, "Error updating data")

\* rows of batches held by runs suspended at their insert
PendingRows == LET n(r) == IF pc[r] = "insert" THEN Len(prices[r]) ELSE 0
               IN  n("cron") + n("update")

\* bound of the model: the table has room for what is in flight plus the rows
\* of this page
Fits(page) == Cardinality(price) + PendingRows + Len(page.wrappers) <= MaxRows

\* the run returns: the caller of GET /update is answered; a rejected promise
\* nobody handles (the cron task) ends the process
Return(r, outcome) ==
    /\ pc' = [pc EXCEPT ![r] = "idle"]
    /\ html' = [html EXCEPT ![r] = NoPage]
    /\ prices' = [prices EXCEPT ![r] = <<>>]
    /\ updateRes' = IF r = "update" THEN UpdateRespond(outcome) ELSE updateRes
    /\ alive' = (r = "update" \/ outcome = "resolved")

\* cron.schedule("10 3 * * *", fetchDataAndSaveToDB): the timer fires; the run
\* proceeds to `await axios.get(url)`
CronFire ==
    /\ alive
    /\ pc["cron"] = "idle"
    /\ pc' = [pc EXCEPT !["cron"] = "fetch"]
    /\ log' = [log EXCEPT !["cron"] = "none"]
    /\ UNCHANGED <<alive, clock, price, price_id_seq, html, prices, updateRes, pricesRes>>

\* variant: a run starts only when no other run is in flight
UpdateRequest_locked ==
    /\ alive
    /\ \A r \in Runs : pc[r] = "idle"
    /\ pc' = [pc EXCEPT !["update"] = "fetch"]
    /\ log' = [log EXCEPT !["update"] = "none"]
    /\ updateRes' = NoResponse
    /\ UNCHANGED <<alive, clock, price, price_id_seq, html, prices, pricesRes>>

\* app.get("/update"): calls fetchDataAndSaveToDB(), which proceeds to
\* `await axios.get(url)`; no response yet
UpdateRequest ==
    /\ alive
    /\ pc["update"] = "idle"
    /\ pc' = [pc EXCEPT !["update"] = "fetch"]
    /\ log' = [log EXCEPT !["update"] = "none"]
    /\ updateRes' = NoResponse
    /\ UNCHANGED <<alive, clock, price, price_id_seq, html, prices, pricesRes>>

\* axios.get resolves with `page`; cheerio.load, the .each loop, and the call of
\* createMany, at which the run suspends
FetchOk(r) ==
    /\ alive
    /\ pc[r] = "fetch"
    /\ \E page \in Pages :
        /\ Fits(page)
        /\ html' = [html EXCEPT ![r] = page]
        /\ prices' = [prices EXCEPT ![r] = Extract(page)]
    /\ pc' = [pc EXCEPT ![r] = "insert"]
    /\ UNCHANGED <<alive, clock, price, price_id_seq, log, updateRes, pricesRes>>

\* axios.get rejects (network error, timeout, non-2xx status): the catch block
\* logs and the function returns
FetchFail(r) ==
    /\ alive
    /\ pc[r] = "fetch"
    /\ log' = [log EXCEPT ![r] = "error: fetch"]
    /\ Return(r, Settle(TRUE))
    /\ UNCHANGED <<clock, price, price_id_seq, pricesRes>>

\* createMany resolves: the rows are in the table, the count is logged
InsertOk(r) ==
    /\ alive
    /\ pc[r] = "insert"
    /\ LET done == CreateManyPrices(price, price_id_seq, prices[r], clock)
       IN  /\ price' = done.table
           /\ price_id_seq' = done.seq
    /\ log' = [log EXCEPT ![r] = "inserted"]
    /\ Return(r, Settle(FALSE))
    /\ UNCHANGED <<clock, pricesRes>>

\* createMany rejects (connection or transaction failure): nothing is written,
\* the catch block logs and the function returns
InsertFail(r) ==
    /\ alive
    /\ pc[r] = "insert"
    /\ log' = [log EXCEPT ![r] = "error: insert"]
    /\ Return(r, Settle(TRUE))
    /\ UNCHANGED <<clock, price, price_id_seq, pricesRes>>

\* app.get("/prices"): findMany resolves and the rows are sent
GetPrices ==
    /\ alive
    /\ pricesRes' = Response(200, FindManyPrices(price, PricesTake))
    /\ UNCHANGED <<alive, clock, price, price_id_seq, pc, html, prices, log, updateRes>>

\* app.get("/prices"): findMany rejects
GetPricesFail ==
    /\ alive
    /\ pricesRes' = Response(500, "Error fetching data")
    /\ UNCHANGED <<alive, clock, price, price_id_seq, pc, html, prices, log, updateRes>>

\* process.on("SIGINT"): the connection is closed and the process exits; what
\* the process held in memory (the suspended runs and their locals) is gone
Sigint ==
    /\ alive
    /\ alive' = FALSE
    /\ pc' = [r \in Runs |-> "idle"]
    /\ html' = [r \in Runs |-> NoPage]
    /\ prices' = [r \in Runs |-> <<>>]
    /\ UNCHANGED <<clock, price, price_id_seq, log, updateRes, pricesRes>>

\* time passes
Tick ==
    /\ alive
    /\ clock < MaxClock
    /\ clock' = clock + 1
    /\ UNCHANGED <<alive, price, price_id_seq, pc, html, prices, log, updateRes, pricesRes>>

-----------------------------------------------------------------------------
(* POST /signup (src/app.js 134-175) over table "user" (migration.sql       *)
(* 14-22) with its unique indexes on username and on email (39-43).         *)

SignupReqs == 1..MaxSignups

Usernames == {"ann", "bob"}

Emails == {"a@x", "b@x"}

\* request bodies; "" stands for a field that is missing or empty
SignupBodies ==
    [username : Usernames \cup {""}, email : Emails \cup {""}, password : {"pw"}]

NoBody == [username |-> "", email |-> "", password |-> ""]

\* a request slot that holds no request in flight: the response of the last
\* request and what its handler logged stay visible
SignupIdle(res, logged) == [pc |-> "idle", body |-> NoBody, res |-> res, log |-> logged]

\* bcrypt.hash(password, 10)
Hash(password) == <<"bcrypt", password>>

\* jwt.sign({userId}, JWT_SECRET)
Token(userId) == [kind |-> "jwt", userId |-> userId]

\* prisma.user.findFirst({where: {OR: [{username}, {email}]}})
UserExists(table, username, email) ==
    \E x \in table : x.username = username \/ x.email = email

\* variant: only the primary key is enforced
UserConflict_pkOnly(row, table) == \E x \in table : x.id = row.id

\* a row collides with the table on user_pkey, user_username_key or user_email_key
UserConflict(row, table) ==
    \E x \in table : x.id = row.id \/ x.username = row.username \/ x.email = row.email

\* the handler runs up to `await findFirst`: 400 when a field is missing
SignupRequest(i) ==
    /\ sreq[i].pc = "idle"
    /\ \E body \in SignupBodies :
          IF body.username = "" \/ body.email = "" \/ body.password = ""
          THEN sreq' = [sreq EXCEPT ![i] =
                   SignupIdle(Response(400, "Username, email, and password are required"),
                              "none")]
          ELSE sreq' = [sreq EXCEPT ![i] =
                   [pc |-> "find", body |-> body, res |-> NoResponse, log |-> "none"]]
    /\ UNCHANGED <<user, user_id_seq>>

\* findFirst resolves: 409 when a user has the username or the email, else the
\* handler goes on to bcrypt.hash and `await create`
SignupFind(i) ==
    /\ sreq[i].pc = "find"
    /\ IF UserExists(user, sreq[i].body.username, sreq[i].body.email)
       THEN sreq' = [sreq EXCEPT ![i] =
                SignupIdle(Response(409, "Username or email already exists"), "none")]
       ELSE sreq' = [sreq EXCEPT ![i].pc = "create"]
    /\ UNCHANGED <<user, user_id_seq>>

\* the INSERT of prisma.user.create is executed: a unique violation rejects and
\* the catch block answers 500, else the row is stored and the token is sent
SignupCreate(i) ==
    /\ sreq[i].pc = "create"
    /\ LET row == [id |-> user_id_seq, username |-> sreq[i].body.username,
                   email |-> sreq[i].body.email,
                   password |-> Hash(sreq[i].body.password)]
       IN  IF UserConflict(row, user)
           THEN /\ sreq' = [sreq EXCEPT ![i] =
                       SignupIdle(Response(500, "An error occurred during sign up"),
                                  "unique")]
                /\ UNCHANGED <<user, user_id_seq>>
           ELSE /\ user' = user \cup {row}
                /\ user_id_seq' = user_id_seq + 1
                /\ sreq' = [sreq EXCEPT ![i] =
                       [pc |-> "idle", body |-> sreq[i].body,
                        res |-> Response(200, Token(row.id)), log |-> "none"]]

\* findFirst, bcrypt.hash or create rejects for another reason (the store is
\* unreachable): the catch block answers 500
SignupFail(i) ==
    /\ sreq[i].pc \in {"find", "create"}
    /\ sreq' = [sreq EXCEPT ![i] =
           SignupIdle(Response(500, "An error occurred during sign up"), "store")]
    /\ UNCHANGED <<user, user_id_seq>>

-----------------------------------------------------------------------------
(* The display endpoints (src/app.js 263-378) behind authenticateToken      *)
(* (54-71), over table "display" (migration.sql 25-37, 46).                 *)

DisplayReqs == 1..MaxDisplayReqs

UserIds == {1, 2}

DisplayIds == {"d1", "d2"}

Undefined == "undefined"

\* Authorization headers: none, a token that does not verify, a token of a user
NoHeader == [kind |-> "none", userId |-> 0]

BadToken == [kind |-> "bad", userId |-> 0]

AuthHeaders == {NoHeader, BadToken} \cup {Token(u) : u \in UserIds}

\* bodies of PUT /update-display: display_id may be absent
UpdateBodies == [display_id : {Undefined, "d2"}, data : {"new"}]

\* bodies of POST /create-display: no `location` is ever passed on
CreateBodies == [display_id : DisplayIds, data : {"new"}]

NoArgs == [display_id |-> Undefined, data |-> Undefined]

DisplayIdle(res) ==
    [pc |-> "idle", userId |-> 0, displayId |-> Undefined, body |-> NoArgs,
     found |-> 0, res |-> res]

\* the slot after 404 "Display not found": req.userId and req.params.displayId
\* of the request that was answered stay visible
NotFound(userId, displayId) ==
    [pc |-> "idle", userId |-> userId, displayId |-> displayId, body |-> NoArgs,
     found |-> 0, res |-> Response(404, "Display not found")]

\* authenticateToken: 401 without header, 403 when jwt.verify fails, else
\* req.userId = decoded.userId (0 stands for "not authenticated")
AuthStatus(header) ==
    IF header = NoHeader THEN 401 ELSE IF header.kind # "jwt" THEN 403 ELSE 200

AuthError(header) ==
    IF header = NoHeader
    THEN Response(401, "Authorization header missing")
    ELSE Response(403, "Invalid token")

DecodedUserId(header) == header.userId

\* variant: the owner is not part of the filter
DisplayFindFirst_anyOwner(table, displayId, userId) ==
    {x \in table : x.display_id = displayId}

\* prisma.display.findFirst({where: {display_id, userId}}): the matching rows
\* (at most one, display_id being unique)
DisplayFindFirst(table, displayId, userId) ==
    {x \in table : x.display_id = displayId /\ x.userId = userId}

\* a row collides with another row on display_display_id_key
DisplayConflict(row, table) ==
    \E x \in table : x.id # row.id /\ x.display_id = row.display_id

\* A handler reads nothing shared before its findFirst query is executed, so
\* the arrival of the request, authenticateToken and that query are one step.

\* app.delete("/delete-display/:displayId") up to the execution of findFirst:
\* 401/403 from authenticateToken, 404 when the caller owns no such display,
\* else the handler goes on to `await delete({where: {id: display.id}})`
DeleteDisplay(i) ==
    /\ dreq[i].pc = "idle"
    /\ \E header \in AuthHeaders :
          IF AuthStatus(header) # 200
          THEN dreq' = [dreq EXCEPT ![i] = DisplayIdle(AuthError(header))]
          ELSE \E displayId \in DisplayIds :
               LET rows == DisplayFindFirst(display, displayId, DecodedUserId(header))
               IN  IF rows = {}
                   THEN dreq' = [dreq EXCEPT ![i] =
                            NotFound(DecodedUserId(header), displayId)]
                   ELSE \E d \in rows :
                           dreq' = [dreq EXCEPT ![i] =
                               [pc |-> "delete", userId |-> DecodedUserId(header),
                                displayId |-> displayId, body |-> NoArgs,
                                found |-> d.id, res |-> NoResponse]]
    /\ UNCHANGED <<display, display_id_seq>>

\* the DELETE is executed: the row is removed and 200 sent, or no row has the
\* id any more, delete rejects and the catch block answers 500
DeleteDisplayDelete(i) ==
    /\ dreq[i].pc = "delete"
    /\ IF \E x \in display : x.id = dreq[i].found
       THEN /\ display' = {x \in display : x.id # dreq[i].found}
            /\ dreq' = [dreq EXCEPT ![i] = DisplayIdle(Response(200, "Display deleted"))]
       ELSE /\ display' = display
            /\ dreq' = [dreq EXCEPT ![i] = DisplayIdle(Response(500, "Error deleting display"))]
    /\ UNCHANGED display_id_seq

\* app.put("/update-display/:displayId") up to the execution of findFirst:
\* 401/403 from authenticateToken, 404 when the caller owns no such display,
\* else the handler goes on to `await update({where: {id: display.id}, data})`
UpdateDisplay(i) ==
    /\ dreq[i].pc = "idle"
    /\ \E header \in AuthHeaders :
          IF AuthStatus(header) # 200
          THEN dreq' = [dreq EXCEPT ![i] = DisplayIdle(AuthError(header))]
          ELSE \E displayId \in DisplayIds, body \in UpdateBodies :
               LET rows == DisplayFindFirst(display, displayId, DecodedUserId(header))
               IN  IF rows = {}
                   THEN dreq' = [dreq EXCEPT ![i] =
                            NotFound(DecodedUserId(header), displayId)]
                   ELSE \E d \in rows :
                           dreq' = [dreq EXCEPT ![i] =
                               [pc |-> "update", userId |-> DecodedUserId(header),
                                displayId |-> displayId, body |-> body,
                                found |-> d.id, res |-> NoResponse]]
    /\ UNCHANGED <<display, display_id_seq>>

\* the row with the fields of `data` that are defined written over it
Updated(row, body) ==
    [row EXCEPT !.display_id = IF body.display_id = Undefined THEN @ ELSE body.display_id,
                !.data = IF body.data = Undefined THEN @ ELSE body.data]

\* the UPDATE is executed: the row is rewritten and sent with 200; when no row
\* has the id any more, or the new display_id is taken, update rejects and the
\* catch block answers 500
UpdateDisplayUpdate(i) ==
    /\ dreq[i].pc = "update"
    /\ LET rows == {x \in display : x.id = dreq[i].found}
       IN  IF rows = {} \/ \E x \in rows : DisplayConflict(Updated(x, dreq[i].body), display)
           THEN /\ display' = display
                /\ dreq' = [dreq EXCEPT ![i] =
                       DisplayIdle(Response(500, "Error updating display"))]
           ELSE /\ display' = (display \ rows) \cup {Updated(x, dreq[i].body) : x \in rows}
                /\ dreq' = [dreq EXCEPT ![i] = DisplayIdle(Response(200, "updatedDisplay"))]
    /\ UNCHANGED display_id_seq

\* the columns of "display" that are NOT NULL and have no default
DisplayRequired == {"display_id", "type", "ipAddress", "userId", "location"}

\* the columns the handler passes to create (type, ipAddress, isActive and data
\* are the model's `data`)
CreateDisplayColumns == {"display_id", "type", "data", "ipAddress", "isActive", "userId"}

\* prisma.display.create({data}): rejected when a required column has no value
\* or the display_id is taken, else the table with the row and the sequence
\* after it
DisplayCreate(table, seq, row) ==
    IF ~(DisplayRequired \subseteq CreateDisplayColumns) \/ DisplayConflict(row, table)
    THEN [ok |-> FALSE, table |-> table, seq |-> seq]
    ELSE [ok |-> TRUE, table |-> table \cup {row}, seq |-> seq + 1]

\* app.post("/create-display"): 401/403 from authenticateToken, 409 when the
\* caller owns a display with the display_id, else create, whose rejection the
\* catch block answers with 500.  The handler writes nothing before its create
\* is executed, and only in it: the handler is one step, taken at that instant.
CreateDisplay(i) ==
    /\ dreq[i].pc = "idle"
    /\ \E header \in AuthHeaders :
          IF AuthStatus(header) # 200
          THEN /\ dreq' = [dreq EXCEPT ![i] = DisplayIdle(AuthError(header))]
               /\ UNCHANGED <<display, display_id_seq>>
          ELSE \E body \in CreateBodies :
               IF DisplayFindFirst(display, body.display_id, DecodedUserId(header)) # {}
               THEN /\ dreq' = [dreq EXCEPT ![i] =
                           DisplayIdle(Response(409, "Display ID already exists"))]
                    /\ UNCHANGED <<display, display_id_seq>>
               ELSE LET row == [id |-> display_id_seq, display_id |-> body.display_id,
                                userId |-> DecodedUserId(header), data |-> body.data]
                        done == DisplayCreate(display, display_id_seq, row)
                    IN  /\ display' = done.table
                        /\ display_id_seq' = done.seq
                        /\ dreq' = [dreq EXCEPT ![i] =
                               DisplayIdle(IF done.ok
                                           THEN Response(201, "newDisplay")
                                           ELSE Response(500, "Error creating display"))]

-----------------------------------------------------------------------------
(* The state after startServer: connected to a store with empty tables      *)

Init ==
    /\ alive = TRUE
    /\ clock = 0
    /\ price = {}
    /\ price_id_seq = 1
    /\ pc = [r \in Runs |-> "idle"]
    /\ html = [r \in Runs |-> NoPage]
    /\ prices = [r \in Runs |-> <<>>]
    /\ log = [r \in Runs |-> "none"]
    /\ updateRes = NoResponse
    /\ pricesRes = NoResponse
    /\ user = {}
    /\ user_id_seq = 1
    /\ display = {}
    /\ display_id_seq = 1
    /\ sreq = [i \in SignupReqs |-> SignupIdle(NoResponse, "none")]
    /\ dreq = [i \in DisplayReqs |-> DisplayIdle(NoResponse)]

Next ==
    \/ CronFire /\ UNCHANGED <<signupVars, displayVars>>
    \/ UpdateRequest /\ UNCHANGED <<signupVars, displayVars>>
    \/ \E r \in Runs : FetchOk(r) /\ UNCHANGED <<signupVars, displayVars>>
    \/ \E r \in Runs : FetchFail(r) /\ UNCHANGED <<signupVars, displayVars>>
    \/ \E r \in Runs : InsertOk(r) /\ UNCHANGED <<signupVars, displayVars>>
    \/ \E r \in Runs : InsertFail(r) /\ UNCHANGED <<signupVars, displayVars>>
    \/ GetPrices /\ UNCHANGED <<signupVars, displayVars>>
    \/ GetPricesFail /\ UNCHANGED <<signupVars, displayVars>>
    \/ Sigint /\ UNCHANGED <<signupVars, displayVars>>
    \/ Tick /\ UNCHANGED <<signupVars, displayVars>>

Spec == Init /\ [][Next]_vars

NextSignup ==
    \/ \E i \in SignupReqs : SignupRequest(i) /\ UNCHANGED <<pipelineVars, displayVars>>
    \/ \E i \in SignupReqs : SignupFind(i) /\ UNCHANGED <<pipelineVars, displayVars>>
    \/ \E i \in SignupReqs : SignupCreate(i) /\ UNCHANGED <<pipelineVars, displayVars>>
    \/ \E i \in SignupReqs : SignupFail(i) /\ UNCHANGED <<pipelineVars, displayVars>>

SpecSignup == Init /\ [][NextSignup]_vars

\* The store is durable and shared with other clients: at startup table
\* "display" holds whatever it held before.  The rows the endpoints find are
\* drawn from the tables that satisfy the constraints of the schema.
StoredDisplays ==
    LET row1(u) == [id |-> 1, display_id |-> "d1", userId |-> u, data |-> "old"]
        row2(u) == [id |-> 2, display_id |-> "d2", userId |-> u, data |-> "old"]
    IN  {{}} \cup {{row1(u)} : u \in UserIds}
             \cup {{row1(u), row2(v)} : u \in UserIds, v \in UserIds}

StoredUsers ==
    {[id |-> u, username |-> IF u = 1 THEN "ann" ELSE "bob",
      email |-> IF u = 1 THEN "a@x" ELSE "b@x", password |-> Hash("pw")] : u \in UserIds}

InitDisplay ==
    /\ alive = TRUE
    /\ clock = 0
    /\ price = {}
    /\ price_id_seq = 1
    /\ pc = [r \in Runs |-> "idle"]
    /\ html = [r \in Runs |-> NoPage]
    /\ prices = [r \in Runs |-> <<>>]
    /\ log = [r \in Runs |-> "none"]
    /\ updateRes = NoResponse
    /\ pricesRes = NoResponse
    /\ user = StoredUsers
    /\ user_id_seq = 3
    /\ display \in StoredDisplays
    /\ display_id_seq = 3
    /\ sreq = [i \in SignupReqs |-> SignupIdle(NoResponse, "none")]
    /\ dreq = [i \in DisplayReqs |-> DisplayIdle(NoResponse)]

NextDisplay ==
    \/ \E i \in DisplayReqs : DeleteDisplay(i) /\ UNCHANGED <<pipelineVars, signupVars>>
    \/ \E i \in DisplayReqs : DeleteDisplayDelete(i) /\ UNCHANGED <<pipelineVars, signupVars>>
    \/ \E i \in DisplayReqs : UpdateDisplay(i) /\ UNCHANGED <<pipelineVars, signupVars>>
    \/ \E i \in DisplayReqs : UpdateDisplayUpdate(i) /\ UNCHANGED <<pipelineVars, signupVars>>
    \/ \E i \in DisplayReqs : CreateDisplay(i) /\ UNCHANGED <<pipelineVars, signupVars>>

SpecDisplay == InitDisplay /\ [][NextDisplay]_vars

-----------------------------------------------------------------------------
(* Properties of the pipeline, checked under Spec                           *)

\* the step in which run r's createMany resolves
InsertedBy(r) == pc[r] = "insert" /\ log'[r] = "inserted"

\* the step in which run r's axios.get rejects
FetchFailedBy(r) == pc[r] = "fetch" /\ log'[r] = "error: fetch"

\* the natural key of a record or a row
NaturalKey(p) == <<p.orderID, p.figure, p.description, p.quote>>

\* every record of the batch already has a row with the same content
AlreadyPersisted(batch) ==
    \A i \in 1..Len(batch) : \E x \in price : NaturalKey(x) = NaturalKey(batch[i])

\* C1: a run whose batch is already in the table (a second run over unchanged
\* source data) leaves the row count of the price table unchanged.
C1_RepeatedRunAddsNoRows ==
    [][\A r \in Runs :
          (InsertedBy(r) /\ AlreadyPersisted(prices[r]))
              => Cardinality(price') = Cardinality(price)]_vars

\* C2: a run started by GET /update that failed at a stage is answered 500, and
\* 200 is sent only for a run that completed without a stage failure.
C2_StageFailureAnswered500 ==
    /\ log["update"] \in {"error: fetch", "error: insert"} => updateRes.status = 500
    /\ updateRes.status = 200 => log["update"] = "inserted"

\* C3: when the fetch of a run fails, the run writes nothing to the price table,
\* the failure is logged, the process stays alive and the run's slot is free
\* again, which is all that the next cron firing or GET /update needs to start.
C3_FetchFailureContained ==
    [][\A r \in Runs :
          FetchFailedBy(r)
              => /\ price' = price
                 /\ price_id_seq' = price_id_seq
                 /\ alive'
                 /\ pc'[r] = "idle"
                 /\ (r = "update" => updateRes'.status # 0)]_vars

C3_Witness ==
    /\ alive
    /\ log["cron"] = "error: fetch"
    /\ pc["cron"] = "idle"
    /\ price = {}
    /\ pc["update"] = "insert"

\* C4: the batch extracted from a document with N fact wrappers has N records,
\* record i carries orderID i and the description of wrapper i, and all records
\* carry the same quote; no wrapper gives the empty batch.
C4_ExtractDense ==
    \A r \in Runs :
        pc[r] = "insert" =>
            LET w == html[r].wrappers
                b == prices[r]
            IN  /\ Len(b) = Len(w)
                /\ \A i \in 1..Len(w) :
                      /\ b[i].orderID = i
                      /\ b[i].description = w[i].description
                /\ \A i, j \in 1..Len(b) : b[i].quote = b[j].quote

C4_Witness ==
    /\ pc["cron"] = "insert" /\ Len(html["cron"].wrappers) = 3
    /\ pc["update"] = "insert" /\ html["update"] = PageNoFacts

Ids(rows) == [i \in 1..Len(rows) |-> rows[i].id]

Min(a, b) == IF a < b THEN a ELSE b

\* C6: a successful GET /prices returns min(5, n) rows of the n in the table,
\* in strictly descending order of id, every row left out having a smaller id
\* than every row returned; the table is not modified.
C6_PricesFiveNewest ==
    [][(pricesRes' # pricesRes /\ pricesRes'.status = 200) =>
          LET body == pricesRes'.body
          IN  /\ Len(body) = Min(5, Cardinality(price))
              /\ \A i \in 1..Len(body) : body[i] \in price
              /\ \A i \in 1..(Len(body) - 1) : body[i].id > body[i + 1].id
              /\ \A x \in price :
                    (\A i \in 1..Len(body) : body[i] # x)
                        => \A i \in 1..Len(body) : x.id < body[i].id
              /\ price' = price]_vars

C6_Witness ==
    /\ pricesRes.status = 200
    /\ Ids(pricesRes.body) = <<10, 9, 8, 7, 6>>
    /\ {x.id : x \in price} = 1..10

\* C7: the price table is append-only: every step keeps every row, with all its
\* fields, in the table.
C7_PriceAppendOnly == [][price \subseteq price']_vars

C7_Witness ==
    /\ Cardinality(price) >= 5
    /\ log["cron"] = "inserted"
    /\ log["update"] = "inserted"
    /\ pricesRes.status = 200

\* C8: nothing excludes overlapping runs: whenever the process is alive a
\* GET /update starts its run whatever the state of the scheduled run (and the
\* reverse), and the insert of a run adds the rows of that run's own batch and
\* leaves the other run, suspended or not, as it is.
C8_OverlappingRunsAllowed ==
    /\ [](alive =>
            /\ pc["update"] = "idle" => ENABLED UpdateRequest
            /\ pc["cron"] = "idle" => ENABLED CronFire)
    /\ [][\A r \in Runs :
            InsertedBy(r) =>
                /\ {NaturalKey(x) : x \in price' \ price}
                       = {NaturalKey(prices[r][i]) : i \in 1..Len(prices[r])}
                /\ \A q \in Runs \ {r} : pc'[q] = pc[q] /\ prices'[q] = prices[q]]_vars

C8_Witness ==
    /\ pc["cron"] = "insert" /\ prices["cron"] = Extract(PageFixture)
    /\ pc["update"] = "insert" /\ prices["update"] = Extract(PageTwo)

-----------------------------------------------------------------------------
(* Properties of the display endpoints, checked under SpecDisplay           *)

\* C9: DELETE /delete-display and PUT /update-display change a display row only
\* when its userId is the caller's: a handler goes on to its delete or update
\* only with a row the caller owns, a row that is removed or rewritten is
\* removed or rewritten by a request of its owner and keeps its id and userId,
\* and a caller who owns no display with the display_id gets 404 while every
\* display row stays as it is.
C9_OnlyOwnerChangesDisplay ==
    [][/\ \A i \in DisplayReqs :
            (dreq[i].pc = "idle" /\ dreq'[i].pc \in {"delete", "update"})
                => \E d \in display :
                      /\ d.id = dreq'[i].found
                      /\ d.userId = dreq'[i].userId
                      /\ d.display_id = dreq'[i].displayId
       /\ \A d \in display :
            d \notin display'
                => \E i \in DisplayReqs :
                      /\ dreq[i].pc \in {"delete", "update"}
                      /\ dreq'[i].pc = "idle"
                      /\ dreq'[i].res.status = 200
                      /\ dreq[i].userId = d.userId
                      /\ dreq[i].found = d.id
       /\ \A d \in display' \ display :
            \A o \in display : o.id = d.id => o.userId = d.userId
       /\ \A i \in DisplayReqs :
            (dreq[i].pc = "idle" /\ dreq'[i] # dreq[i] /\ dreq'[i].res.status = 404)
                => /\ display' = display
                   /\ ~\E d \in display :
                         /\ d.display_id = dreq'[i].displayId
                         /\ d.userId = dreq'[i].userId
       /\ \A i \in DisplayReqs :
            (dreq[i].pc = "idle" /\ dreq'[i] # dreq[i] /\ dreq'[i].pc = "idle"
                /\ dreq'[i].res.status \in {401, 403, 409})
                => display' = display]_vars

C9_Witness ==
    /\ \E i \in DisplayReqs :
          /\ dreq[i].res.status = 404
          /\ dreq[i].userId = 2
          /\ dreq[i].displayId = "d1"
    /\ \E d \in display : d.display_id = "d1" /\ d.userId = 1 /\ d.data = "new"
    /\ \E i \in DisplayReqs : dreq[i].res = Response(200, "Display deleted")

-----------------------------------------------------------------------------
(* Properties of POST /signup, checked under SpecSignup                     *)

\* C10: no two user rows share a username or an email; of the requests answered
\* with a token no two used the same username or the same email; a request
\* answered with a token added exactly its own row, and a request answered
\* with an error (409 or 500) added none.
C10_UniqueUsers ==
    /\ [](\A x, y \in user :
            x # y => x.username # y.username /\ x.email # y.email /\ x.id # y.id)
    /\ [](\A i, j \in SignupReqs :
            (i # j /\ sreq[i].res.status = 200 /\ sreq[j].res.status = 200)
                => /\ sreq[i].body.username # sreq[j].body.username
                   /\ sreq[i].body.email # sreq[j].body.email)
    /\ [][\A i \in SignupReqs :
            (sreq[i].pc # "idle" /\ sreq'[i] # sreq[i])
                => IF sreq'[i].res.status = 200
                   THEN \E row \in user' \ user :
                           /\ user' = user \cup {row}
                           /\ row.id = sreq'[i].res.body.userId
                           /\ row.username = sreq[i].body.username
                           /\ row.email = sreq[i].body.email
                   ELSE /\ user' = user
                        /\ sreq'[i].pc = "idle" => sreq'[i].res.status \in {409, 500}]_vars

C10_Witness ==
    \E i, j \in SignupReqs :
        /\ sreq[i].res.status = 200
        /\ sreq[i].body.username = "ann"
        /\ sreq[j].res.status = 500
        /\ sreq[j].log = "unique"
        /\ Cardinality(user) = 1

====
